------------------------------ MODULE Spec2Model ------------------------------
(***************************************************************************)
(* A model of xlog (taro33333/xlog): the handler chain of a structured     *)
(* logger built on log/slog.                                               *)
(*                                                                         *)
(*   src/xlog.go     Init, Default, logWithCaller, the level entry points, *)
(*                   With / WithGroup                                      *)
(*   src/README.md   (lines 213-593 hold the handler source)               *)
(*                   ContextHandler, ColorHandler, appendAttr, formatValue *)
(*                                                                         *)
(* Text is a sequence of tokens.  A token is either one special byte (a    *)
(* space, a double quote, a backslash, '=', '.', ':', '/', newline, CR,    *)
(* tab), one ANSI escape sequence, or a run of ordinary bytes.  Pointers   *)
(* are indices into the heaps colorHandlers, ctxHandlers, loggers.         *)
(***************************************************************************)
EXTENDS Integers, Sequences, FiniteSets, TLC

VARIABLES
    colorHandlers,  \* heap of ColorHandler objects
    ctxHandlers,    \* heap of ContextHandler objects
    loggers,        \* heap of xlog.Logger objects
    mutexes,        \* heap of sync.Mutex: the thread holding it, or 0
    defaultLogger,  \* the package variable defaultLogger (a Logger pointer)
    defaultMu,      \* the package variable defaultMu: the writer holding it, or 0
    slogDefault,    \* slog's process-wide default logger (a ctxHandlers pointer)
    stdLogOutput,   \* the logger behind the standard log package's output
    sink,           \* the io.Writer: the chunks written so far, in order
    th,             \* the threads: position in the call and its locals
    obs             \* what the last completed operation did (observation only)

vars == <<colorHandlers, ctxHandlers, loggers, mutexes, defaultLogger, defaultMu,
          slogDefault, stdLogOutput, sink, th, obs>>

(***************************************************************************)
(* Bounds of the exploration.                                              *)
(*   MaxBinds        SpecRender: WithAttrs / WithGroup calls               *)
(*   MaxRenders      SpecRender: Handle calls                              *)
(*   MaxSeqCalls     SpecSeq: calls that change the state (Init, binds,    *)
(*                   enabled logging calls)                                *)
(*   MaxThreadCalls  Spec: calls by all goroutines together (binds and     *)
(*                   enabled logging calls)                                *)
(***************************************************************************)
MaxBinds == 2
MaxRenders == 1
MaxSeqCalls == 3
MaxThreadCalls == 4

(***************************************************************************)
(* Bytes and ANSI colour codes.                                            *)
(***************************************************************************)
NL == "\n"
CR == "\r"
TAB == "\t"
SP == " "
DQ == "\""
BS == "\\"

colorReset == "<ESC[0m>"
colorRed == "<ESC[31m>"
colorGreen == "<ESC[32m>"
colorYellow == "<ESC[33m>"
colorBlue == "<ESC[34m>"
colorPurple == "<ESC[35m>"
colorCyan == "<ESC[36m>"
colorGray == "<ESC[37m>"
colorBold == "<ESC[1m>"

(***************************************************************************)
(* slog levels.                                                            *)
(***************************************************************************)
LevelDebug == -4
LevelInfo == 0
LevelWarn == 4
LevelError == 8

(***************************************************************************)
(* ContextKey constants.                                                   *)
(***************************************************************************)
TraceIDKey == <<"trace_id">>
UserIDKey == <<"user_id">>
RequestIDKey == <<"request_id">>
SessionIDKey == <<"session_id">>
SpanIDKey == <<"span_id">>
MyCustomKey == <<"custom_field">>

(***************************************************************************)
(* slog.Value and slog.Attr.  A value is a tagged union; every value has   *)
(* the same fields so that values compare.                                 *)
(*   kind "String"   s = the text                                          *)
(*   kind "Int64"    n = the integer                                       *)
(*   kind "Time"     n = the instant (0 = the zero time)                   *)
(*   kind "Duration" s = its canonical text                                *)
(*   kind "Any"      n = 0: nil;  n = 1: a non-nil value (an error, ...)   *)
(*                   whose default formatting is s                         *)
(*   kind "Group"    g = the member attributes                             *)
(***************************************************************************)
MkValue(k, s, n, g) == [kind |-> k, s |-> s, n |-> n, g |-> g]
StringValue(s) == MkValue("String", s, 0, <<>>)
Int64Value(n) == MkValue("Int64", <<>>, n, <<>>)
TimeValue(t) == MkValue("Time", <<>>, t, <<>>)
DurationValue(s) == MkValue("Duration", s, 0, <<>>)
AnyValue(s) == MkValue("Any", s, 1, <<>>)
NilValue == MkValue("Any", <<>>, 0, <<>>)
GroupValue(as) == MkValue("Group", <<>>, 0, as)

Attr(k, v) == [key |-> k, value |-> v]
ZeroAttr == Attr(<<>>, NilValue)

\* a.Equal(slog.Attr{})
IsZeroAttr(a) == a.key = <<>> /\ a.value = NilValue

\* Value.isEmptyGroup
IsEmptyGroup(v) == v.kind = "Group" /\ Len(v.g) = 0

(***************************************************************************)
(* Sequence helpers.                                                       *)
(***************************************************************************)
RECURSIVE Concat(_)
Concat(ss) == IF ss = <<>> THEN <<>> ELSE Head(ss) \o Concat(Tail(ss))

Count(s, c) == Cardinality({i \in 1..Len(s) : s[i] = c})

(***************************************************************************)
(* fmt: %d of an integer, %q of a string, %v of a value.                   *)
(***************************************************************************)
Digit(d) == <<"0", "1", "2", "3", "4", "5", "6", "7", "8", "9">>[d + 1]

RECURSIVE NatText(_)
NatText(n) == IF n < 10 THEN <<Digit(n)>> ELSE NatText(n \div 10) \o <<Digit(n % 10)>>

Itoa(n) == IF n < 0 THEN <<"-">> \o NatText(-n) ELSE NatText(n)

\* strconv.Quote on one token
QuoteByte(c) ==
    CASE c = DQ -> <<BS, DQ>>
      [] c = BS -> <<BS, BS>>
      [] c = NL -> <<BS, "n">>
      [] c = CR -> <<BS, "r">>
      [] c = TAB -> <<BS, "t">>
      [] OTHER -> <<c>>

Quote(s) == <<DQ>> \o Concat([i \in 1..Len(s) |-> QuoteByte(s[i])]) \o <<DQ>>

\* time.Time.Format: the layouts the program uses
FormatTime(t, layout) ==
    CASE layout = "2006-01-02 15:04:05" -> <<"2024-01-15", SP, "10", ":", "30", ":", "45">>
      [] layout = "2006-01-02T15:04:05.000Z07:00" ->
             <<"2024-01-15T10", ":", "30", ":", "45", ".", "000Z">>
      [] OTHER -> <<"2024-01-15T10", ":", "30", ":", "45Z">>

RFC3339 == "2006-01-02T15:04:05Z07:00"

\* fmt.Sprintf("%v", v.Any()) and Value.String()
DefaultText(v) ==
    CASE v.kind = "String" -> v.s
      [] v.kind = "Int64" -> Itoa(v.n)
      [] v.kind = "Duration" -> v.s
      [] v.kind = "Time" -> FormatTime(v.n, "2006-01-02T15:04:05.000Z07:00")
      [] v.kind = "Any" -> IF v.n = 0 THEN <<"<nil>">> ELSE v.s
      [] OTHER -> <<"[group]">>

(***************************************************************************)
(* needsQuoting and formatValue.                                           *)
(***************************************************************************)
needsQuoting(s) ==
    \E i \in 1..Len(s) : s[i] \in {SP, DQ, "=", NL, CR, TAB}

formatValue(v) ==
    CASE v.kind = "String" -> IF needsQuoting(v.s) THEN Quote(v.s) ELSE v.s
      [] v.kind = "Time" -> FormatTime(v.n, "2006-01-02T15:04:05.000Z07:00")
      [] v.kind = "Duration" -> v.s
      [] OTHER -> DefaultText(v)


(***************************************************************************)
(* slog.HandlerOptions.  ReplaceAttr is a function value; the model names  *)
(* the functions a handler can be built with:                              *)
(*   "nil"   no hook                                                       *)
(*   "init"  the closure Init installs (rewrites the time key in           *)
(*           Development)                                                  *)
(*   "drop"  a caller's hook that suppresses the attribute named "secret"  *)
(*           by returning the empty attribute                              *)
(***************************************************************************)
TimeKey == <<"time">>
SecretKey == <<"secret">>
Development == "development"
Production == "production"

\* HandlerOptions.Level is a slog.Leveler: nil, or a level
NilLeveler == [isNil |-> TRUE, level |-> 0]
Leveler(level) == [isNil |-> FALSE, level |-> level]

HandlerOptions(addSource, level, hook, fmt) ==
    [AddSource |-> addSource, Level |-> level, ReplaceAttr |-> hook, timeFormat |-> fmt]

\* the closure of Init (cfg.env = Development whenever a ColorHandler holds it)
InitReplaceAttr(opts, groups, a) ==
    IF a.key = TimeKey /\ a.value.kind = "Time"
    THEN Attr(TimeKey, StringValue(FormatTime(a.value.n, opts.timeFormat)))
    ELSE a

ReplaceAttr(opts, groups, a) ==
    CASE opts.ReplaceAttr = "init" -> InitReplaceAttr(opts, groups, a)
      [] opts.ReplaceAttr = "drop" -> IF a.key = SecretKey THEN ZeroAttr ELSE a
      [] OTHER -> a

(***************************************************************************)
(* runtime frames.  A pc is an index into FrameTable; 0 is the zero pc.    *)
(***************************************************************************)
XlogFile == <<"/", "go", "/", "xlog", "/", "xlog.go">>
FrameTable == <<
    [function |-> "runtime.Callers", file |-> <<"/", "go", "/", "runtime", "/", "extern.go">>, line |-> 331],
    [function |-> "xlog.logWithCaller", file |-> XlogFile, line |-> 195],
    [function |-> "xlog.entry", file |-> XlogFile, line |-> 210],
    [function |-> "main.handler", file |-> <<"/", "srv", "/", "handler.go">>, line |-> 42],
    [function |-> "main.main", file |-> <<"/", "main.go">>, line |-> 7],
    [function |-> "", file |-> <<>>, line |-> 0] >>
PcCallers == 1
PcLogWithCaller == 2
PcEntry == 3
PcHandler == 4
PcMain == 5
PcUnresolved == 6
UserPcs == {PcHandler, PcMain}

\* ColorHandler.formatSource
RECURSIVE ShortFrom(_, _)
ShortFrom(file, i) ==
    IF i <= 1 THEN file
    ELSE IF file[i] = "/" THEN SubSeq(file, i + 1, Len(file))
    ELSE ShortFrom(file, i - 1)

formatSource(pc) ==
    LET frame == FrameTable[pc] IN
    IF frame.file # <<>>
    THEN ShortFrom(frame.file, Len(frame.file)) \o <<":">> \o Itoa(frame.line)
    ELSE <<>>

(***************************************************************************)
(* ColorHandler: levelColor, levelString, appendAttr.                      *)
(***************************************************************************)
levelColor(level) ==
    CASE level >= LevelError -> colorRed
      [] level < LevelError /\ level >= LevelWarn -> colorYellow
      [] level < LevelWarn /\ level >= LevelInfo -> colorGreen
      [] OTHER -> colorBlue

\* a faulty levelString, for comparison: the thresholds are exclusive
levelString_Exclusive(level) ==
    CASE level > LevelError -> "ERR"
      [] level <= LevelError /\ level > LevelWarn -> "WRN"
      [] level <= LevelWarn /\ level > LevelInfo -> "INF"
      [] OTHER -> "DBG"

levelString(level) ==
    CASE level >= LevelError -> "ERR"
      [] level < LevelError /\ level >= LevelWarn -> "WRN"
      [] level < LevelWarn /\ level >= LevelInfo -> "INF"
      [] OTHER -> "DBG"

\* appendAttr, "Build key with groups": for _, g := range groups { key = g + "." + key }
RECURSIVE GroupedKey(_, _)
GroupedKey(groups, key) ==
    IF groups = <<>> THEN key
    ELSE GroupedKey(Tail(groups), Head(groups) \o <<".">> \o key)

RECURSIVE appendAttr(_, _, _, _)
RECURSIVE appendGroupAttrs(_, _, _, _, _)

\* appendAttr, "Handle group values": the loop over groupAttrs from index i (1-based)
appendGroupAttrs(opts, buf, groupAttrs, newGroups, i) ==
    IF i > Len(groupAttrs) THEN buf
    ELSE LET sep == IF i > 1 \/ Len(buf) > 0 THEN buf \o <<SP>> ELSE buf IN
         appendGroupAttrs(opts, appendAttr(opts, sep, groupAttrs[i], newGroups),
                          groupAttrs, newGroups, i + 1)

appendAttr(opts, buf, a0, groups) ==
    IF IsZeroAttr(a0) THEN buf
    ELSE LET a == IF opts.ReplaceAttr # "nil" THEN ReplaceAttr(opts, groups, a0) ELSE a0 IN
         IF opts.ReplaceAttr # "nil" /\ IsZeroAttr(a) THEN buf
         ELSE LET key == GroupedKey(groups, a.key) IN
              IF a.value.kind = "Group"
              THEN IF Len(a.value.g) = 0 THEN buf
                   ELSE appendGroupAttrs(opts, buf, a.value.g, Append(groups, a.key), 1)
              ELSE buf \o <<colorPurple>> \o key \o <<colorReset>> \o <<"=">>
                       \o formatValue(a.value)

(***************************************************************************)
(* slog.Record.                                                            *)
(***************************************************************************)
\* Record.Add / Record.AddAttrs: attributes that are empty groups are not stored
AddAttrs(attrs, more) == attrs \o SelectSeq(more, LAMBDA a : ~IsEmptyGroup(a.value))

NewRecord(time, level, msg, pc) ==
    [time |-> time, level |-> level, msg |-> msg, pc |-> pc, attrs |-> <<>>]

RecordWith(r, more) == [r EXCEPT !.attrs = AddAttrs(r.attrs, more)]

(***************************************************************************)
(* ColorHandler objects.  groups is a Go slice: gcap is its capacity.      *)
(***************************************************************************)
NewColorHandler(output, mu, opts) ==
    [opts |-> opts, output |-> output, mu |-> mu,
     attrs |-> <<>>, groups |-> <<>>, gcap |-> 0, preformat |-> <<>>]

\* a faulty Enabled, for comparison: it ignores the configured level
ColorHandler_Enabled_IgnoresLevel(h, level) == level >= LevelInfo

\* ColorHandler.Enabled
ColorHandler_Enabled(h, level) ==
    LET minLevel == IF ~h.opts.Level.isNil THEN h.opts.Level.level ELSE LevelInfo IN
    level >= minLevel

\* ColorHandler.Handle, "Timestamp"
HandleTimestamp(h, r) ==
    IF r.time # 0
    THEN <<colorGray>>
         \o (IF h.opts.ReplaceAttr # "nil"
             THEN DefaultText(ReplaceAttr(h.opts, <<>>, Attr(TimeKey, TimeValue(r.time))).value)
             ELSE FormatTime(r.time, "2006-01-02 15:04:05"))
         \o <<colorReset, SP>>
    ELSE <<>>

\* ColorHandler.Handle, "Source"
HandleSource(h, r) ==
    IF h.opts.AddSource /\ r.pc # 0
    THEN <<colorCyan>> \o formatSource(r.pc) \o <<colorReset, SP>>
    ELSE <<>>

\* ColorHandler.Handle, "Record attrs": the r.Attrs callback, from attribute i
RECURSIVE HandleRecordAttrs(_, _, _, _)
HandleRecordAttrs(h, buf, attrs, i) ==
    IF i > Len(attrs) THEN buf
    ELSE HandleRecordAttrs(h, appendAttr(h.opts, buf \o <<SP>>, attrs[i], h.groups),
                           attrs, i + 1)

\* ColorHandler.Handle up to the write: the bytes of the line
ColorHandler_Format(h, r) ==
    LET head == HandleTimestamp(h, r)
                \o <<levelColor(r.level), levelString(r.level), colorReset, SP>>
                \o HandleSource(h, r)
                \o <<colorBold>> \o r.msg \o <<colorReset>>
        pre == IF h.preformat # <<>> THEN head \o <<SP>> \o h.preformat ELSE head
    IN  HandleRecordAttrs(h, pre, r.attrs, 1) \o <<NL>>

\* ColorHandler.WithAttrs, "Pre-format the attributes": the loop from attribute i
RECURSIVE PreformatAttrs(_, _, _, _)
PreformatAttrs(h, buf, attrs, i) ==
    IF i > Len(attrs) THEN buf
    ELSE LET sep == IF Len(buf) > 0 THEN buf \o <<SP>> ELSE buf IN
         PreformatAttrs(h, appendAttr(h.opts, sep, attrs[i], h.groups), attrs, i + 1)

\* ColorHandler.WithAttrs: the object it returns
ColorHandler_WithAttrs(h, attrs) ==
    LET buf == PreformatAttrs(h, <<>>, attrs, 1)
        preformat == IF Len(buf) > 0
                     THEN (IF h.preformat # <<>> THEN h.preformat \o <<SP>> ELSE h.preformat)
                          \o buf
                     ELSE h.preformat
    IN  [h EXCEPT !.attrs = h.attrs \o attrs, !.preformat = preformat]

\* ColorHandler.WithGroup (name # ""): the object it returns
ColorHandler_WithGroup(h, name) ==
    [h EXCEPT !.groups = Append(h.groups, name), !.gcap = Len(h.groups) + 1]

(***************************************************************************)
(* ContextHandler.  A context is a function from ContextKey to a value;    *)
(* NilValue stands for "ctx.Value(key) == nil".                            *)
(***************************************************************************)
NewContextHandler(handler, keys) == [handler |-> handler, keys |-> keys]

\* ContextHandler.Handle: attrs, the attributes extracted from the context
RECURSIVE ExtractAttrs(_, _)
ExtractAttrs(keys, ctx) ==
    IF keys = <<>> THEN <<>>
    ELSE LET v == ctx[Head(keys)] IN
         (IF v # NilValue THEN <<Attr(Head(keys), v)>> ELSE <<>>)
         \o ExtractAttrs(Tail(keys), ctx)

\* ContextHandler.Handle: the record handed to h.handler.Handle
ContextHandler_Record(keys, ctx, r) ==
    LET attrs == ExtractAttrs(keys, ctx) IN
    IF Len(attrs) > 0
    THEN RecordWith(RecordWith(NewRecord(r.time, r.level, r.msg, r.pc), attrs), r.attrs)
    ELSE r


(***************************************************************************)
(* Observations.  obs records what the last completed operation of         *)
(* SpecRender and SpecSeq was given and what it did; no action reads it.   *)
(***************************************************************************)
NoRecord == NewRecord(0, LevelInfo, <<>>, 0)

CtxKeys == {TraceIDKey, UserIDKey, RequestIDKey, SessionIDKey, SpanIDKey, MyCustomKey}

\* context.Background()
Background == [k \in CtxKeys |-> NilValue]

\* context.WithValue(ctx, key, value)
WithContext(ctx, key, value) == [ctx EXCEPT ![key] = value]

NoObs ==
    [op |-> "none", h |-> 0, r |-> NoRecord, attrs |-> <<>>, name |-> <<>>,
     handed |-> <<>>, line |-> <<>>, writes |-> 0, before |-> <<>>, ret |-> 0,
     enabled |-> FALSE, err |-> FALSE, l |-> 0, ctx |-> Background, entry |-> "",
     opts |-> <<>>, caller |-> 0]

Chunk(t, bytes) == [t |-> t, bytes |-> bytes]

(***************************************************************************)
(* SpecRender: the exported handler API used directly, by one caller.      *)
(* NewColorHandler, then WithAttrs / WithGroup / Handle in any order.      *)
(* The sink is an in-memory buffer whose Write succeeds.                   *)
(***************************************************************************)
K(k, s) == Attr(<<k>>, StringValue(s))

RenderOptions ==
    {HandlerOptions(FALSE, NilLeveler, hook, RFC3339) : hook \in {"nil", "init", "drop"}}

\* attribute lists handed to WithAttrs
BindAttrs ==
    { <<K("a", <<"1">>)>>,
      <<K("b", <<"2">>)>>,
      <<ZeroAttr>>,
      <<K("a", <<"1">>), ZeroAttr>>,
      <<K("a", <<"1">>), K("b", <<"2">>)>>,
      <<Attr(<<"g">>, GroupValue(<<K("k", <<"v">>)>>))>>,
      <<Attr(<<"e">>, GroupValue(<<>>))>>,
      <<K("secret", <<"x">>)>> }

\* attribute lists added to a record
RecordAttrs ==
    { <<>>,
      <<K("k", <<"v">>)>>,
      <<ZeroAttr>>,
      <<K("k", <<"v">>), K("secret", <<"x">>)>>,
      <<Attr(<<"g">>, GroupValue(<<K("k", <<"v">>)>>))>>,
      <<Attr(<<"g">>, GroupValue(<<Attr(<<"h">>, GroupValue(<<K("k", <<"v">>)>>))>>))>>,
      <<Attr(<<"g">>, GroupValue(<<Attr(<<"e">>, GroupValue(<<>>)), K("k", <<"v">>)>>))>>,
      <<K("k", <<"a", SP, "b">>)>> }

GroupNames == {<<>>, <<"g">>, <<"h">>}

RenderRecords ==
    {RecordWith(NewRecord(1, LevelInfo, <<"msg">>, 0), as) : as \in RecordAttrs}

RenderInit ==
    /\ \E opts \in RenderOptions : colorHandlers = <<NewColorHandler("w", 1, opts)>>
    /\ ctxHandlers = <<>>
    /\ loggers = <<>>
    /\ mutexes = <<0>>
    /\ defaultLogger = 0
    /\ defaultMu = 0
    /\ slogDefault = 0
    /\ stdLogOutput = 0
    /\ sink = <<>>
    /\ th = <<>>
    /\ obs = NoObs

NBinds == Len(colorHandlers) - 1

\* h.WithAttrs(attrs) on the handler at p
RenderWithAttrs(p, attrs) ==
    /\ NBinds < MaxBinds
    /\ colorHandlers' = Append(colorHandlers, ColorHandler_WithAttrs(colorHandlers[p], attrs))
    /\ obs' = [NoObs EXCEPT !.op = "WithAttrs", !.h = p, !.attrs = attrs,
                            !.ret = Len(colorHandlers) + 1]
    /\ UNCHANGED <<ctxHandlers, loggers, mutexes, defaultLogger, defaultMu,
                   slogDefault, stdLogOutput, sink, th>>

\* h.WithGroup(name) on the handler at p: "if name == "" { return h }"
RenderWithGroup(p, name) ==
    /\ NBinds < MaxBinds
    /\ IF name = <<>>
       THEN /\ colorHandlers' = colorHandlers
            /\ obs' = [NoObs EXCEPT !.op = "WithGroup", !.h = p, !.name = name, !.ret = p]
       ELSE /\ colorHandlers' =
                  Append(colorHandlers, ColorHandler_WithGroup(colorHandlers[p], name))
            /\ obs' = [NoObs EXCEPT !.op = "WithGroup", !.h = p, !.name = name,
                                    !.ret = Len(colorHandlers) + 1]
    /\ UNCHANGED <<ctxHandlers, loggers, mutexes, defaultLogger, defaultMu,
                   slogDefault, stdLogOutput, sink, th>>

\* h.Handle(ctx, r) on the handler at p: format, lock, one Write, unlock
RenderHandle(p, r) ==
    /\ Len(sink) < MaxRenders
    /\ mutexes[colorHandlers[p].mu] = 0
    /\ LET buf == ColorHandler_Format(colorHandlers[p], r) IN
       /\ sink' = Append(sink, Chunk(0, buf))
       /\ obs' = [NoObs EXCEPT !.op = "Handle", !.h = p, !.r = r, !.handed = r.attrs,
                               !.line = buf, !.writes = 1, !.before = sink,
                               !.enabled = TRUE]
    /\ UNCHANGED <<colorHandlers, ctxHandlers, loggers, mutexes, defaultLogger,
                   defaultMu, slogDefault, stdLogOutput, th>>

RenderNext ==
    \/ \E p \in DOMAIN colorHandlers, attrs \in BindAttrs : RenderWithAttrs(p, attrs)
    \/ \E p \in DOMAIN colorHandlers, name \in GroupNames : RenderWithGroup(p, name)
    \/ \E p \in DOMAIN colorHandlers, r \in RenderRecords : RenderHandle(p, r)

SpecRender == RenderInit /\ [][RenderNext]_vars


(***************************************************************************)
(* Claims on the rendering of attributes (checked under SpecRender).       *)
(***************************************************************************)
EndsWith(s, suffix) ==
    /\ Len(s) >= Len(suffix)
    /\ SubSeq(s, Len(s) - Len(suffix) + 1, Len(s)) = suffix

\* g1.g2.....gn.k
RECURSIVE DottedKey(_, _)
DottedKey(path, k) ==
    IF path = <<>> THEN k ELSE Head(path) \o <<".">> \o DottedKey(Tail(path), k)

\* gn.....g2.g1.k
RECURSIVE ReversedKey(_, _)
ReversedKey(path, k) ==
    IF path = <<>> THEN k ELSE ReversedKey(Tail(path), Head(path) \o <<".">> \o k)

\* an attribute that is a leaf, or a group whose one member is such a chain
RECURSIVE IsChain(_)
IsChain(a) ==
    IF a.value.kind = "Group" THEN Len(a.value.g) = 1 /\ IsChain(a.value.g[1])
    ELSE ~IsZeroAttr(a) /\ a.key # SecretKey

RECURSIVE ChainNames(_)
ChainNames(a) ==
    IF a.value.kind = "Group" THEN <<a.key>> \o ChainNames(a.value.g[1]) ELSE <<>>

RECURSIVE ChainLeaf(_)
ChainLeaf(a) == IF a.value.kind = "Group" THEN ChainLeaf(a.value.g[1]) ELSE a

RenderedLeaf(key, v) ==
    <<SP, colorPurple>> \o key \o <<colorReset, "=">> \o formatValue(v) \o <<NL>>

\* the last operation was Handle of a record whose one attribute is a chain
HandledChain ==
    /\ obs.op = "Handle"
    /\ Len(obs.r.attrs) = 1
    /\ IsChain(obs.r.attrs[1])

ChainPath == colorHandlers[obs.h].groups \o ChainNames(obs.r.attrs[1])

\* C6: an attribute with key k under the group path g1, ..., gn (WithGroup binds,
\* then nested group values) is rendered with the key g1.g2.....gn.k.
C6_GroupPathInOrder ==
    HandledChain =>
        EndsWith(obs.line, RenderedLeaf(DottedKey(ChainPath, ChainLeaf(obs.r.attrs[1]).key),
                                        ChainLeaf(obs.r.attrs[1]).value))

\* what the code renders instead: the group names in reverse order
C6_CodeRendersReversedPath ==
    HandledChain =>
        EndsWith(obs.line, RenderedLeaf(ReversedKey(ChainPath, ChainLeaf(obs.r.attrs[1]).key),
                                        ChainLeaf(obs.r.attrs[1]).value))

C6_Witness == HandledChain /\ Len(ChainPath) >= 2

\* C7: for every handler, binding A and then B renders every record to the same
\* bytes as binding A followed by B in one WithAttrs call.
C7_BindAssociative ==
    \A p \in DOMAIN colorHandlers : \A A \in BindAttrs, B \in BindAttrs :
        \A r \in RenderRecords :
            ColorHandler_Format(
                ColorHandler_WithAttrs(ColorHandler_WithAttrs(colorHandlers[p], A), B), r)
            = ColorHandler_Format(ColorHandler_WithAttrs(colorHandlers[p], A \o B), r)

\* an attribute that is to render nothing: the zero attribute, one the hook maps to
\* the zero attribute, a group without members
RendersNothing(opts, groups, a) ==
    \/ IsZeroAttr(a)
    \/ opts.ReplaceAttr # "nil" /\ IsZeroAttr(ReplaceAttr(opts, groups, a))
    \/ IsEmptyGroup(a.value)

RECURSIVE Supplied(_, _, _)
Supplied(opts, groups, attrs) ==
    IF attrs = <<>> THEN <<>>
    ELSE LET a == Head(attrs) IN
         (IF RendersNothing(opts, groups, a) THEN <<>>
          ELSE IF a.value.kind = "Group"
               THEN <<Attr(a.key, GroupValue(Supplied(opts, Append(groups, a.key), a.value.g)))>>
               ELSE <<a>>)
         \o Supplied(opts, groups, Tail(attrs))

\* C8: an attribute that renders nothing leaves the line (per-record attribute) and
\* the pre-rendered text (bound attribute) byte-identical to not supplying it.
C8_EmptyRendersNothing ==
    /\ obs.op = "Handle" =>
           LET h == colorHandlers[obs.h] IN
           obs.line = ColorHandler_Format(
                          h, [obs.r EXCEPT !.attrs = Supplied(h.opts, h.groups, obs.r.attrs)])
    /\ obs.op = "WithAttrs" =>
           LET h == colorHandlers[obs.h] IN
           colorHandlers[obs.ret].preformat =
               ColorHandler_WithAttrs(h, Supplied(h.opts, h.groups, obs.attrs)).preformat


(***************************************************************************)
(* Init and its options (src/xlog.go).  The model covers the Development   *)
(* environment, in which Init builds a ColorHandler; in Production the     *)
(* line is produced by slog's JSON handler, which is not part of the       *)
(* repository.                                                             *)
(***************************************************************************)
Option(name, level, flag, keys) == [opt |-> name, level |-> level, flag |-> flag, keys |-> keys]
WithLevel(level) == Option("WithLevel", level, FALSE, <<>>)
WithSource(enabled) == Option("WithSource", LevelInfo, enabled, <<>>)
WithContextKeys(keys) == Option("WithContextKeys", LevelInfo, FALSE, keys)

ApplyOption(c, o) ==
    CASE o.opt = "WithLevel" -> [c EXCEPT !.level = o.level]
      [] o.opt = "WithSource" -> [c EXCEPT !.addSource = o.flag]
      [] o.opt = "WithContextKeys" -> [c EXCEPT !.contextKeys = c.contextKeys \o o.keys]
      [] OTHER -> c

RECURSIVE ApplyOptions(_, _)
ApplyOptions(c, opts) ==
    IF opts = <<>> THEN c ELSE ApplyOptions(ApplyOption(c, Head(opts)), Tail(opts))

\* Init: cfg after "for _, opt := range opts { opt(cfg) }"
InitConfig(opts) ==
    ApplyOptions([env |-> Development, level |-> LevelInfo, output |-> "w",
                  addSource |-> TRUE, timeFormat |-> RFC3339,
                  contextKeys |-> <<TraceIDKey, UserIDKey, RequestIDKey>>], opts)

\* Init: handlerOpts
InitHandlerOptions(cfg) ==
    HandlerOptions(cfg.addSource, Leveler(cfg.level), "init", cfg.timeFormat)

\* xlog.Logger: Logger is the embedded *slog.Logger (named by its handler, a
\* ctxHandlers pointer; 0 is slog's own default handler), handler the field
Logger(slogHandler, handler) == [Logger |-> slogHandler, handler |-> handler]

\* the package's init(): defaultLogger = &Logger{Logger: slog.Default()}
BootLogger == Logger(0, 0)

(***************************************************************************)
(* The heaps after a bind.                                                 *)
(***************************************************************************)
\* a faulty WithAttrs, for comparison: it also updates the receiver in place
AllocWithAttrs_InPlace(heap, p, attrs) ==
    Append([heap EXCEPT ![p] = ColorHandler_WithAttrs(heap[p], attrs)],
           ColorHandler_WithAttrs(heap[p], attrs))

\* ColorHandler.WithAttrs on the object at p: a new object, the others untouched
AllocWithAttrs(heap, p, attrs) == Append(heap, ColorHandler_WithAttrs(heap[p], attrs))

\* ColorHandler.WithGroup on the object at p
AllocWithGroup(heap, p, name) == Append(heap, ColorHandler_WithGroup(heap[p], name))

\* a faulty rebind, for comparison: it loses the recognized keys
ContextHandler_Rebind_DropsKeys(h, inner) == [handler |-> inner, keys |-> <<>>]

\* ContextHandler.WithAttrs / WithGroup: wraps the handler at inner, keeps h.keys
ContextHandler_Rebind(h, inner) == [handler |-> inner, keys |-> h.keys]

\* ContextHandler.Enabled
ContextHandler_Enabled(c, level) ==
    ColorHandler_Enabled(colorHandlers[ctxHandlers[c].handler], level)

(***************************************************************************)
(* logWithCaller.                                                          *)
(***************************************************************************)
callerSkip == 3

\* a faulty runtime.Callers, for comparison: skip 0 taken to name the caller of Callers
Callers_SkipFromCaller(skip, stack) == IF skip <= Len(stack) /\ skip >= 1 THEN stack[skip] ELSE 0

\* runtime.Callers(skip, pcs[:]) with len(pcs) = 1: pcs[0]; skip 0 names the frame
\* of Callers itself, skip 1 its caller
Callers(skip, stack) == IF skip + 1 <= Len(stack) THEN stack[skip + 1] ELSE 0

\* the stack inside logWithCaller when the entry point was called from caller
StackAt(caller) == <<PcCallers, PcLogWithCaller, PcEntry, caller>>

\* logWithCaller: r after r.Add(args...)
CallRecord(level, msg, args, caller) ==
    RecordWith(NewRecord(1, level, msg, Callers(callerSkip, StackAt(caller))), args)

(***************************************************************************)
(* SpecSeq: one caller using the package API: Init, With / WithGroup,      *)
(* and the level entry points, each call running to completion.  The sink  *)
(* is an in-memory buffer whose Write succeeds.                            *)
(***************************************************************************)
SeqOptionLists ==
    { <<>>,
      <<WithLevel(LevelWarn)>>,
      <<WithLevel(LevelDebug), WithSource(FALSE)>>,
      <<WithContextKeys(<<TraceIDKey>>)>>,
      <<WithContextKeys(<<MyCustomKey, UserIDKey>>)>> }

SeqBindArgs == { <<>>, <<K("svc", <<"api">>)>> }
SeqGroupNames == { <<>>, <<"g">> }

CtxTraceUser ==
    WithContext(WithContext(Background, TraceIDKey, StringValue(<<"trace-123">>)),
                UserIDKey, StringValue(<<"user-456">>))
CtxCustom ==
    WithContext(WithContext(Background, MyCustomKey, Int64Value(7)),
                RequestIDKey, StringValue(<<"req-789">>))

Levels == {LevelDebug, LevelInfo, LevelWarn, LevelError}

LogInput(level, ctx, msg, args) == [level |-> level, ctx |-> ctx, msg |-> msg, args |-> args]

\* every level with a plain call; contexts and attributes at Info; a message of
\* two lines at Error
SeqLogInputs ==
    {LogInput(lv, Background, <<"msg">>, <<>>) : lv \in Levels}
    \cup {LogInput(LevelInfo, ctx, <<"msg">>, args) :
            ctx \in {CtxTraceUser, CtxCustom},
            args \in {<<>>, <<K("k", <<"v">>), Attr(<<"n">>, Int64Value(42))>>}}
    \cup {LogInput(LevelError, ctx, <<"line1", NL, "line2">>, <<>>) :
            ctx \in {Background, CtxTraceUser}}

SeqInit ==
    /\ colorHandlers = <<>>
    /\ ctxHandlers = <<>>
    /\ loggers = <<BootLogger>>
    /\ mutexes = <<>>
    /\ defaultLogger = 1
    /\ defaultMu = 0
    /\ slogDefault = 0
    /\ stdLogOutput = 0
    /\ sink = <<>>
    /\ th = <<>>
    /\ obs = NoObs

\* the calls made so far that changed the state: Init, binds, enabled logging calls
NSeqCalls == (Len(loggers) - 1) + Len(sink)

\* Init(opts...)
SeqXInit(opts) ==
    /\ NSeqCalls < MaxSeqCalls
    /\ LET cfg == InitConfig(opts)
           mu == Len(mutexes) + 1
           base == Len(colorHandlers) + 1
           ctxh == Len(ctxHandlers) + 1
           logger == Len(loggers) + 1
       IN /\ mutexes' = Append(mutexes, 0)
          /\ colorHandlers' = Append(colorHandlers,
                                     NewColorHandler(cfg.output, mu, InitHandlerOptions(cfg)))
          /\ ctxHandlers' = Append(ctxHandlers, NewContextHandler(base, cfg.contextKeys))
          /\ loggers' = Append(loggers, Logger(ctxh, ctxh))
          /\ defaultLogger' = logger
          /\ slogDefault' = ctxh
          /\ stdLogOutput' = ctxh
          /\ obs' = [NoObs EXCEPT !.op = "Init", !.opts = opts, !.ret = logger]
    /\ UNCHANGED <<defaultMu, sink, th>>

\* Logger.With (xlog.go) over slog.Logger.With, ContextHandler.WithAttrs and
\* ColorHandler.WithAttrs: the heaps after l.With(args...)
DoWith(l, args) ==
    LET c == loggers[l].Logger IN
    IF args = <<>>
    THEN \* slog.Logger.With: "if len(args) == 0 { return l }"
         /\ loggers' = Append(loggers, Logger(c, loggers[l].handler))
         /\ UNCHANGED <<colorHandlers, ctxHandlers>>
    ELSE /\ colorHandlers' = AllocWithAttrs(colorHandlers, ctxHandlers[c].handler, args)
         /\ ctxHandlers' = Append(ctxHandlers,
                                  ContextHandler_Rebind(ctxHandlers[c], Len(colorHandlers) + 1))
         /\ loggers' = Append(loggers, Logger(Len(ctxHandlers) + 1, loggers[l].handler))

\* Logger.WithGroup (xlog.go) over slog.Logger.WithGroup, ContextHandler.WithGroup
\* and ColorHandler.WithGroup: the heaps after l.WithGroup(name)
DoWithGroup(l, name) ==
    LET c == loggers[l].Logger IN
    IF name = <<>>
    THEN \* slog.Logger.WithGroup: "if name == "" { return l }"
         /\ loggers' = Append(loggers, Logger(c, loggers[l].handler))
         /\ UNCHANGED <<colorHandlers, ctxHandlers>>
    ELSE /\ colorHandlers' = AllocWithGroup(colorHandlers, ctxHandlers[c].handler, name)
         /\ ctxHandlers' = Append(ctxHandlers,
                                  ContextHandler_Rebind(ctxHandlers[c], Len(colorHandlers) + 1))
         /\ loggers' = Append(loggers, Logger(Len(ctxHandlers) + 1, loggers[l].handler))

\* l.With(args...); xlog.With(args...) is Default().With(args...)
SeqWith(entry, l, args) ==
    /\ NSeqCalls < MaxSeqCalls
    /\ loggers[l].Logger # 0
    /\ entry = "func" => l = defaultLogger
    /\ DoWith(l, args)
    /\ obs' = [NoObs EXCEPT !.op = "With", !.entry = entry, !.l = l, !.attrs = args,
                            !.ret = Len(loggers) + 1]
    /\ UNCHANGED <<mutexes, defaultLogger, defaultMu, slogDefault, stdLogOutput, sink, th>>

\* l.WithGroup(name); xlog.WithGroup(name) is Default().WithGroup(name)
SeqWithGroup(entry, l, name) ==
    /\ NSeqCalls < MaxSeqCalls
    /\ loggers[l].Logger # 0
    /\ entry = "func" => l = defaultLogger
    /\ DoWithGroup(l, name)
    /\ obs' = [NoObs EXCEPT !.op = "WithGroup", !.entry = entry, !.l = l, !.name = name,
                            !.ret = Len(loggers) + 1]
    /\ UNCHANGED <<mutexes, defaultLogger, defaultMu, slogDefault, stdLogOutput, sink, th>>

\* Debug / Info / Warn / Error, as a free function (on Default()) or a Logger method:
\* logWithCaller, ContextHandler.Handle, ColorHandler.Handle
SeqLog(entry, l, in) ==
    /\ loggers[l].Logger # 0
    /\ entry = "func" => l = defaultLogger
    /\ LET c == loggers[l].Logger
           h == colorHandlers[ctxHandlers[c].handler]
           r == CallRecord(in.level, in.msg, in.args, PcHandler)
           r2 == ContextHandler_Record(ctxHandlers[c].keys, in.ctx, r)
           buf == ColorHandler_Format(h, r2)
       IN IF ~ContextHandler_Enabled(c, in.level)
          THEN /\ sink' = sink
               /\ obs' = [NoObs EXCEPT !.op = "Log", !.entry = entry, !.l = l, !.r = r,
                                       !.ctx = in.ctx, !.before = sink]
          ELSE /\ NSeqCalls < MaxSeqCalls
               /\ mutexes[h.mu] = 0
               /\ sink' = Append(sink, Chunk(0, buf))
               /\ obs' = [NoObs EXCEPT !.op = "Log", !.entry = entry, !.l = l, !.r = r,
                                       !.ctx = in.ctx, !.before = sink, !.enabled = TRUE,
                                       !.handed = r2.attrs, !.line = buf, !.writes = 1,
                                       !.h = ctxHandlers[c].handler]
    /\ UNCHANGED <<colorHandlers, ctxHandlers, loggers, mutexes, defaultLogger, defaultMu,
                   slogDefault, stdLogOutput, th>>

Entries == {"func", "method"}

SeqNext ==
    \/ \E opts \in SeqOptionLists : SeqXInit(opts)
    \/ \E e \in Entries, l \in DOMAIN loggers, args \in SeqBindArgs : SeqWith(e, l, args)
    \/ \E e \in Entries, l \in DOMAIN loggers, name \in SeqGroupNames : SeqWithGroup(e, l, name)
    \/ \E e \in Entries, l \in DOMAIN loggers, in \in SeqLogInputs : SeqLog(e, l, in)

SpecSeq == SeqInit /\ [][SeqNext]_vars


(***************************************************************************)
(* Claims on the package API (checked under SpecSeq).                      *)
(***************************************************************************)
\* the ColorHandler behind logger l, and the minimum level Init configured for it
HandlerOf(l) == colorHandlers[ctxHandlers[loggers[l].Logger].handler]
ConfiguredLevel(l) == HandlerOf(l).opts.Level.level

LoggedBelow == obs.op = "Log" /\ obs.r.level < ConfiguredLevel(obs.l)
LoggedAtOrAbove == obs.op = "Log" /\ obs.r.level >= ConfiguredLevel(obs.l)

\* C1: a logging call whose severity is below the configured minimum issues no
\* Write and leaves the sink's contents unchanged.
C1_BelowMinimumIsNoOp ==
    LoggedBelow => obs.writes = 0 /\ sink = obs.before

\* a suppressed call after a line was written: the line is still all the sink holds
C1_Witness == LoggedBelow /\ Len(sink) >= 1

\* C2: a logging call whose severity is at or above the configured minimum appends
\* exactly one line by exactly one Write, and the line holds exactly one newline,
\* its last byte.
C2_OneLinePerCall ==
    LoggedAtOrAbove =>
        /\ obs.writes = 1
        /\ sink = Append(obs.before, Chunk(0, obs.line))
        /\ Count(obs.line, NL) = 1
        /\ obs.line[Len(obs.line)] = NL

\* the same, for the messages that hold no newline
C2_OneLinePerCallPlainMessage ==
    (LoggedAtOrAbove /\ Count(obs.r.msg, NL) = 0) =>
        /\ obs.writes = 1
        /\ sink = Append(obs.before, Chunk(0, obs.line))
        /\ Count(obs.line, NL) = 1
        /\ obs.line[Len(obs.line)] = NL

\* the recognized keys of the Init that logger l descends from (the Logger's
\* handler field keeps the ContextHandler Init built)
RecognizedKeys(l) == ctxHandlers[loggers[l].handler].keys

\* the attributes of the recognized keys present in ctx, in key order
PresentAttrs(keys, ctx) ==
    LET present == SelectSeq(keys, LAMBDA k : ctx[k] # NilValue)
    IN  [i \in 1..Len(present) |-> Attr(present[i], ctx[present[i]])]

\* C4: the attributes handed to the formatting handler are those of the recognized
\* keys with a non-nil value in the context, in recognized-key order, followed by
\* the record's own attributes in their order (the record unchanged when no key is
\* present), for loggers from Init and from With / WithGroup binds on them.
C4_ContextAttrsFirstInKeyOrder ==
    (obs.op = "Log" /\ obs.enabled) =>
        obs.handed = PresentAttrs(RecognizedKeys(obs.l), obs.ctx) \o obs.r.attrs

\* a bound logger logs a record with attributes under a context with two keys
C4_Witness ==
    /\ obs.op = "Log" /\ obs.enabled
    /\ loggers[obs.l].Logger # loggers[obs.l].handler
    /\ Len(PresentAttrs(RecognizedKeys(obs.l), obs.ctx)) >= 2
    /\ Len(obs.r.attrs) >= 1

\* the keys given by the WithContextKeys options of an option list
RECURSIVE GivenKeys(_)
GivenKeys(opts) ==
    IF opts = <<>> THEN <<>>
    ELSE (IF Head(opts).opt = "WithContextKeys" THEN Head(opts).keys ELSE <<>>)
         \o GivenKeys(Tail(opts))

HasKeysOption(opts) == \E i \in 1..Len(opts) : opts[i].opt = "WithContextKeys"

CountKey(attrs, k) == Cardinality({i \in 1..Len(attrs) : attrs[i].key = k})

\* C5: WithContextKeys sets the keys to extract: after Init(WithContextKeys(k1..kn))
\* the recognized keys are exactly k1..kn (the default list only without the
\* option), so a key present in the context gives one attribute per line.
C5_WithContextKeysSetsKeys ==
    /\ obs.op = "Init" =>
           ctxHandlers[loggers[obs.ret].Logger].keys =
               (IF HasKeysOption(obs.opts) THEN GivenKeys(obs.opts)
                ELSE <<TraceIDKey, UserIDKey, RequestIDKey>>)
    /\ (obs.op = "Log" /\ obs.enabled) =>
           \A k \in CtxKeys :
               obs.ctx[k] # NilValue =>
                   CountKey(obs.handed, k) - CountKey(obs.r.attrs, k) <= 1


(***************************************************************************)
(* Spec: NThreads goroutines use the package concurrently after a          *)
(* completed Init().  A logging call is the steps                          *)
(*   start    Default() (free functions), Enabled, the record, the         *)
(*            formatting of the line: all on the goroutine's own data      *)
(*   lock     h.mu.Lock()                                                  *)
(*   write    h.output.Write(buf): the sink takes the bytes in two parts,  *)
(*            or fails and takes none                                      *)
(*   unlock   the deferred h.mu.Unlock(), and the returns up to the caller *)
(***************************************************************************)
NThreads == 2
Threads == 1..NThreads

NoError == "nil"
WriteError == "EIO"

NoResult == [enabled |-> FALSE, attempts |-> 0, writeErr |-> NoError,
             handleErr |-> NoError, ctxErr |-> NoError, outcome |-> "none"]

IdleThread ==
    [pc |-> "idle", ops |-> 0, written |-> 0, l |-> 0, h |-> 0, buf |-> <<>>,
     err |-> NoError, attempts |-> 0, res |-> NoResult]

FirstPart(buf) == SubSeq(buf, 1, Len(buf) \div 2)
SecondPart(buf) == SubSeq(buf, Len(buf) \div 2 + 1, Len(buf))

\* the message of goroutine t's k-th enabled call
Message(t, k) == <<"m", Digit(t), Digit(k)>>

\* a faulty handler, for comparison: it writes without waiting for the lock
CanLock_NoWait(mu) == TRUE

\* h.mu.Lock() can proceed
CanLock(mu) == mutexes[mu] = 0

\* a faulty Handle, for comparison: it reports success whatever Write returned
ColorHandler_HandleReturn_Swallows(writeErr) == NoError

\* ColorHandler.Handle: "_, err := h.output.Write(buf); return err"
ColorHandler_HandleReturn(writeErr) == writeErr

\* ContextHandler.Handle: "return h.handler.Handle(ctx, r2)"
ContextHandler_HandleReturn(handleErr) == handleErr

\* logWithCaller: "_ = logger.Handler().Handle(ctx, r)", then the entry point returns
EntryOutcome(ctxErr) == "returned"

InitialInit(opts) ==
    LET cfg == InitConfig(opts) IN
    /\ mutexes = <<0>>
    /\ colorHandlers = <<NewColorHandler(cfg.output, 1, InitHandlerOptions(cfg))>>
    /\ ctxHandlers = <<NewContextHandler(1, cfg.contextKeys)>>
    /\ loggers = <<BootLogger, Logger(1, 1)>>
    /\ defaultLogger = 2
    /\ slogDefault = 1
    /\ stdLogOutput = 1

Init ==
    /\ InitialInit(<<>>)
    /\ defaultMu = 0
    /\ sink = <<>>
    /\ th = [t \in Threads |-> IdleThread]
    /\ obs = NoObs

NThreadBinds == Len(loggers) - 2

\* the enabled logging calls goroutines 1..n have started
RECURSIVE Started(_)
Started(n) ==
    IF n = 0 THEN 0
    ELSE th[n].ops + (IF th[n].pc \in {"lock", "write", "writing", "unlock"} THEN 1 ELSE 0)
         + Started(n - 1)

\* the calls made so far by all goroutines: binds and enabled logging calls
NThreadCalls == NThreadBinds + Started(NThreads)

CanStart(t, entry, l) ==
    /\ th[t].pc = "idle"
    /\ NThreadCalls < MaxThreadCalls
    /\ loggers[l].Logger # 0
    /\ entry = "func" => (defaultMu = 0 /\ l = defaultLogger)

\* the entry point up to ColorHandler.Handle's h.mu.Lock()
ThLogStart(t, entry, l, level) ==
    /\ CanStart(t, entry, l)
    /\ LET c == loggers[l].Logger
           h == colorHandlers[ctxHandlers[c].handler]
           r == CallRecord(level, Message(t, th[t].ops + 1), <<>>, PcHandler)
           r2 == ContextHandler_Record(ctxHandlers[c].keys, Background, r)
       IN IF ~ContextHandler_Enabled(c, level)
          THEN \* "if !logger.Enabled(ctx, level) { return }": nothing has changed
               th' = th
          ELSE th' = [th EXCEPT ![t].pc = "lock", ![t].l = l,
                                ![t].h = ctxHandlers[c].handler,
                                ![t].buf = ColorHandler_Format(h, r2),
                                ![t].err = NoError, ![t].attempts = 0]
    /\ UNCHANGED <<colorHandlers, ctxHandlers, loggers, mutexes, defaultLogger, defaultMu,
                   slogDefault, stdLogOutput, sink, obs>>

\* h.mu.Lock()
ThLock(t) ==
    /\ th[t].pc = "lock"
    /\ CanLock(colorHandlers[th[t].h].mu)
    /\ mutexes' = [mutexes EXCEPT ![colorHandlers[th[t].h].mu] = t]
    /\ th' = [th EXCEPT ![t].pc = "write"]
    /\ UNCHANGED <<colorHandlers, ctxHandlers, loggers, defaultLogger, defaultMu,
                   slogDefault, stdLogOutput, sink, obs>>

\* h.output.Write(buf) begins: the sink takes the first part of the bytes
ThWriteBegin(t) ==
    /\ th[t].pc = "write"
    /\ sink' = Append(sink, Chunk(t, FirstPart(th[t].buf)))
    /\ th' = [th EXCEPT ![t].pc = "writing", ![t].attempts = @ + 1]
    /\ UNCHANGED <<colorHandlers, ctxHandlers, loggers, mutexes, defaultLogger, defaultMu,
                   slogDefault, stdLogOutput, obs>>

\* h.output.Write(buf) fails: the sink takes nothing
ThWriteFail(t) ==
    /\ th[t].pc = "write"
    /\ th' = [th EXCEPT ![t].pc = "unlock", ![t].attempts = @ + 1, ![t].err = WriteError]
    /\ UNCHANGED <<colorHandlers, ctxHandlers, loggers, mutexes, defaultLogger, defaultMu,
                   slogDefault, stdLogOutput, sink, obs>>

\* h.output.Write(buf) completes: the sink takes the rest of the bytes
ThWriteEnd(t) ==
    /\ th[t].pc = "writing"
    /\ sink' = Append(sink, Chunk(t, SecondPart(th[t].buf)))
    /\ th' = [th EXCEPT ![t].pc = "unlock", ![t].err = NoError]
    /\ UNCHANGED <<colorHandlers, ctxHandlers, loggers, mutexes, defaultLogger, defaultMu,
                   slogDefault, stdLogOutput, obs>>

\* the deferred h.mu.Unlock() and the returns of ColorHandler.Handle,
\* ContextHandler.Handle, logWithCaller and the entry point
ThUnlock(t) ==
    /\ th[t].pc = "unlock"
    /\ mutexes' = [mutexes EXCEPT ![colorHandlers[th[t].h].mu] = 0]
    /\ LET handleErr == ColorHandler_HandleReturn(th[t].err)
           ctxErr == ContextHandler_HandleReturn(handleErr)
       IN th' = [th EXCEPT ![t].pc = "idle",
                           ![t].l = 0, ![t].h = 0, ![t].buf = <<>>,
                           ![t].err = NoError, ![t].attempts = 0,
                           ![t].ops = @ + 1,
                           ![t].written = IF th[t].err = NoError THEN @ + 1 ELSE @,
                           ![t].res = [enabled |-> TRUE, attempts |-> th[t].attempts,
                                       writeErr |-> th[t].err, handleErr |-> handleErr,
                                       ctxErr |-> ctxErr, outcome |-> EntryOutcome(ctxErr)]]
    /\ UNCHANGED <<colorHandlers, ctxHandlers, loggers, defaultLogger, defaultMu,
                   slogDefault, stdLogOutput, sink, obs>>

\* l.With(args...) or xlog.With(args...) by goroutine t
ThWith(t, entry, l, args) ==
    /\ CanStart(t, entry, l)
    /\ DoWith(l, args)
    /\ th' = th
    /\ UNCHANGED <<mutexes, defaultLogger, defaultMu, slogDefault, stdLogOutput, sink, obs>>

\* l.WithGroup(name) or xlog.WithGroup(name) by goroutine t
ThWithGroup(t, entry, l, name) ==
    /\ CanStart(t, entry, l)
    /\ DoWithGroup(l, name)
    /\ th' = th
    /\ UNCHANGED <<mutexes, defaultLogger, defaultMu, slogDefault, stdLogOutput, sink, obs>>

ThreadLevels == {LevelDebug, LevelInfo}
ThreadBindArgs == {<<K("svc", <<"api">>)>>}
ThreadGroupNames == {<<"g">>}

Next ==
    \/ \E t \in Threads, e \in Entries, l \in DOMAIN loggers, lv \in ThreadLevels :
           ThLogStart(t, e, l, lv)
    \/ \E t \in Threads : ThLock(t)
    \/ \E t \in Threads : ThWriteBegin(t)
    \/ \E t \in Threads : ThWriteFail(t)
    \/ \E t \in Threads : ThWriteEnd(t)
    \/ \E t \in Threads : ThUnlock(t)
    \/ \E t \in Threads, e \in Entries, l \in DOMAIN loggers, args \in ThreadBindArgs :
           ThWith(t, e, l, args)
    \/ \E t \in Threads, e \in Entries, l \in DOMAIN loggers, name \in ThreadGroupNames :
           ThWithGroup(t, e, l, name)

Spec == Init /\ [][Next]_vars


(***************************************************************************)
(* Claims on concurrent use (checked under Spec).                          *)
(***************************************************************************)
InWrite(t) == th[t].pc = "writing"

\* the Write calls of goroutine t that have completed
CompletedWrites(t) ==
    th[t].written + (IF th[t].pc = "unlock" /\ th[t].err = NoError THEN 1 ELSE 0)

RECURSIVE SumCompleted(_)
SumCompleted(n) == IF n = 0 THEN 0 ELSE CompletedWrites(n) + SumCompleted(n - 1)

SinkBytes == Concat([i \in 1..Len(sink) |-> sink[i].bytes])

\* the parts of one Write are adjacent in the sink and make up one complete line
PartsAdjacent ==
    \A i \in 1..Len(sink) :
        i % 2 = 1 =>
            IF i = Len(sink) THEN InWrite(sink[i].t)
            ELSE /\ sink[i + 1].t = sink[i].t
                 /\ Count(sink[i].bytes \o sink[i + 1].bytes, NL) = 1
                 /\ sink[i + 1].bytes[Len(sink[i + 1].bytes)] = NL

\* C3: goroutines logging concurrently through the default logger and loggers
\* derived from it never have two Writes in progress at once; the sink holds one
\* complete, non-interleaved line per completed Write (N x M in the end).
C3_NoInterleaving ==
    /\ \A t1 \in Threads, t2 \in Threads : (t1 # t2 /\ InWrite(t1)) => ~InWrite(t2)
    /\ PartsAdjacent
    /\ Count(SinkBytes, NL) = SumCompleted(NThreads)

\* the goroutines have made all the calls, each wrote a line, one of them through
\* a derived logger, and the lines of different goroutines alternate in the sink
C3_Witness ==
    /\ \A t \in Threads : th[t].pc = "idle" /\ th[t].written >= 1
    /\ NThreadCalls = MaxThreadCalls
    /\ Count(SinkBytes, NL) = MaxThreadCalls - NThreadBinds
    /\ \E i \in 1..Len(sink) : Count(sink[i].bytes, "svc") > 0
    /\ sink[1].t # sink[3].t

\* the ColorHandler Init built for the chain logger l descends from
RootHandlerOf(l) == colorHandlers[ctxHandlers[loggers[l].handler].handler]

SharesSinkAndLock ==
    \A l \in DOMAIN loggers :
        loggers[l].Logger # 0 =>
            /\ HandlerOf(l).output = RootHandlerOf(l).output
            /\ HandlerOf(l).mu = RootHandlerOf(l).mu

\* no groups slice has spare capacity: an append to it copies
NoSpareCapacity == \A p \in DOMAIN colorHandlers : colorHandlers[p].gcap = Len(colorHandlers[p].groups)

ObjectsUnchanged ==
    /\ \A p \in DOMAIN colorHandlers :
           p \in DOMAIN colorHandlers' /\ colorHandlers'[p] = colorHandlers[p]
    /\ \A c \in DOMAIN ctxHandlers :
           c \in DOMAIN ctxHandlers' /\ ctxHandlers'[c] = ctxHandlers[c]
    /\ \A l \in DOMAIN loggers :
           l \in DOMAIN loggers' /\ loggers'[l] = loggers[l]

\* C9: a bind returns a new instance sharing the parent's sink and lock; no step of
\* any goroutine (bind or log, on parent or child) changes an existing handler's
\* bound attributes, pre-rendered text or group path.
C9_CopyOnBind ==
    /\ [](SharesSinkAndLock /\ NoSpareCapacity)
    /\ [][ObjectsUnchanged]_vars

\* a goroutine writes through a derived handler while another waits for the same
\* lock with the parent
C9_Witness ==
    \E t1 \in Threads, t2 \in Threads :
        /\ InWrite(t1) /\ th[t1].h > 1
        /\ colorHandlers[th[t1].h].preformat # <<>>
        /\ th[t2].pc = "lock" /\ th[t2].h = 1

\* C10: a failure of the sink's Write is what ColorHandler.Handle returns, what
\* ContextHandler.Handle returns unchanged, the Write was attempted once, and the
\* entry point returns normally.
C10_WriteFailureReturned ==
    \A t \in Threads :
        /\ th[t].attempts <= 1
        /\ th[t].res.writeErr = WriteError =>
               /\ th[t].res.handleErr = WriteError
               /\ th[t].res.ctxErr = th[t].res.handleErr
               /\ th[t].res.attempts = 1
               /\ th[t].res.outcome = "returned"

C10_Witness ==
    \E t \in Threads : th[t].pc = "idle" /\ th[t].res.writeErr = WriteError


(***************************************************************************)
(* SpecCall: one caller, after a completed Init(opts...), calls the level  *)
(* entry points from different call sites, and calls Handle on the         *)
(* logger's handler with records it built itself (any token).  The sink is *)
(* an in-memory buffer whose Write succeeds.                               *)
(***************************************************************************)
MaxCallLogs == 2

CallOptionLists ==
    { <<>>,
      <<WithLevel(LevelDebug)>>,
      <<WithLevel(LevelDebug), WithSource(FALSE)>> }

\* the tokens a record can carry: zero, the frames of the table
CallTokens == {0} \cup DOMAIN FrameTable

CallInit ==
    /\ \E opts \in CallOptionLists : InitialInit(opts)
    /\ defaultMu = 0
    /\ sink = <<>>
    /\ th = <<>>
    /\ obs = NoObs

\* xlog.Debug / Info / Warn / Error or the method of the same name on the logger
\* Init returned, called from the code at caller
CallEntry(entry, level, caller) ==
    /\ LET l == defaultLogger
           c == loggers[l].Logger
           h == colorHandlers[ctxHandlers[c].handler]
           r == CallRecord(level, <<"msg">>, <<>>, caller)
           r2 == ContextHandler_Record(ctxHandlers[c].keys, Background, r)
           buf == ColorHandler_Format(h, r2)
       IN IF ~ContextHandler_Enabled(c, level)
          THEN /\ sink' = sink
               /\ obs' = [NoObs EXCEPT !.op = "Log", !.entry = entry, !.l = l,
                                       !.caller = caller, !.before = sink]
          ELSE /\ Len(sink) < MaxCallLogs
               /\ sink' = Append(sink, Chunk(0, buf))
               /\ obs' = [NoObs EXCEPT !.op = "Log", !.entry = entry, !.l = l, !.r = r,
                                       !.caller = caller, !.before = sink,
                                       !.enabled = TRUE, !.handed = r2.attrs,
                                       !.line = buf, !.writes = 1,
                                       !.h = ctxHandlers[c].handler]
    /\ UNCHANGED <<colorHandlers, ctxHandlers, loggers, mutexes, defaultLogger, defaultMu,
                   slogDefault, stdLogOutput, th>>

\* logger.Handler().Handle(ctx, slog.NewRecord(t, slog.LevelInfo, "msg", pc))
CallHandle(pc) ==
    /\ Len(sink) < MaxCallLogs
    /\ LET c == loggers[defaultLogger].Logger
           h == colorHandlers[ctxHandlers[c].handler]
           r == NewRecord(1, LevelInfo, <<"msg">>, pc)
           r2 == ContextHandler_Record(ctxHandlers[c].keys, Background, r)
           buf == ColorHandler_Format(h, r2)
       IN /\ sink' = Append(sink, Chunk(0, buf))
          /\ obs' = [NoObs EXCEPT !.op = "Handle", !.l = defaultLogger, !.r = r,
                                  !.before = sink, !.enabled = TRUE, !.handed = r2.attrs,
                                  !.line = buf, !.writes = 1,
                                  !.h = ctxHandlers[c].handler]
    /\ UNCHANGED <<colorHandlers, ctxHandlers, loggers, mutexes, defaultLogger, defaultMu,
                   slogDefault, stdLogOutput, th>>

CallNext ==
    \/ \E e \in Entries, lv \in Levels, caller \in UserPcs : CallEntry(e, lv, caller)
    \/ \E pc \in CallTokens : CallHandle(pc)

SpecCall == CallInit /\ [][CallNext]_vars


(***************************************************************************)
(* Claims on the call site (checked under SpecCall).                       *)
(***************************************************************************)
\* the frames of the library's own wrappers
WrapperPcs == {PcCallers, PcLogWithCaller, PcEntry}

\* C11: the token a level entry point (free function or Logger method, at each of
\* the four levels) puts in the record is the frame of the code that called the
\* entry point, never a frame of runtime.Callers, logWithCaller or the entry point.
C11_TokenIsCallSite ==
    (obs.op = "Log" /\ obs.enabled) =>
        /\ obs.r.pc = obs.caller
        /\ obs.r.pc \notin WrapperPcs

\* a Logger method called from main.main has logged with main.main's frame
C11_Witness ==
    /\ obs.op = "Log" /\ obs.enabled
    /\ obs.entry = "method" /\ obs.caller = PcMain
    /\ FrameTable[obs.r.pc].function = "main.main"

\* the part of a path after its last '/' (the whole path when it has none)
RECURSIVE AfterLastSlash(_, _)
AfterLastSlash(file, i) ==
    IF i = 0 THEN file
    ELSE IF file[i] = "/" THEN SubSeq(file, i + 1, Len(file))
    ELSE AfterLastSlash(file, i - 1)

ShortFileName(file) == AfterLastSlash(file, Len(file))

\* the token of record r gives a source location under the options of handler h
HasSourceLocation(h, r) ==
    IF h.opts.AddSource /\ r.pc # 0 THEN FrameTable[r.pc].file # <<>> ELSE FALSE

\* the source-location field as specified: nothing, or shortFileName:line
SourceField(h, r) ==
    IF HasSourceLocation(h, r)
    THEN <<colorCyan>> \o ShortFileName(FrameTable[r.pc].file) \o <<":">>
         \o Itoa(FrameTable[r.pc].line) \o <<colorReset, SP>>
    ELSE <<>>

\* the line of a record without attributes, with the given source-location field
LineWithSource(h, r, field) ==
    HandleTimestamp(h, r) \o <<levelColor(r.level), levelString(r.level), colorReset, SP>>
    \o field \o <<colorBold>> \o r.msg \o <<colorReset, NL>>

Rendered == obs.op \in {"Log", "Handle"} /\ obs.enabled

\* C12: the line holds no source-location field at all when source location is
\* disabled, the token is zero or the token resolves to no file; otherwise the
\* field is shortFileName:line, shortFileName the part of the path after its last
\* '/', also for a path whose only '/' is its first character.
C12_SourceFieldOmittedOrShort ==
    Rendered =>
        obs.line = LineWithSource(colorHandlers[obs.h], obs.r,
                                  SourceField(colorHandlers[obs.h], obs.r))

\* what does hold: the field is as specified when the token is zero or source
\* location is disabled, and when the file's last '/' is not its first character
C12_SourceFieldForNestedPaths ==
    (/\ Rendered
     /\ \/ ~colorHandlers[obs.h].opts.AddSource
        \/ obs.r.pc = 0
        \/ /\ FrameTable[obs.r.pc].file # <<>>
           /\ \E i \in 2..Len(FrameTable[obs.r.pc].file) : FrameTable[obs.r.pc].file[i] = "/")
    => obs.line = LineWithSource(colorHandlers[obs.h], obs.r,
                                 SourceField(colorHandlers[obs.h], obs.r))


(***************************************************************************)
(* SpecFormat: the formatting functions applied to their inputs:           *)
(* formatValue to attribute values of every kind, levelColor and           *)
(* levelString to integer levels.  Nothing is written.                     *)
(***************************************************************************)
MaxTextLen == 2
LevelSpan == 10

\* the bytes a text is made of: an ordinary byte, the bytes needsQuoting looks
\* for, the backslash and a letter that strconv.Quote uses in an escape
TextBytes == {"a", "n", SP, DQ, "=", NL, CR, TAB, BS}

RECURSIVE TextsOfLen(_)
TextsOfLen(n) ==
    IF n = 0 THEN {<<>>}
    ELSE {Append(s, c) : s \in TextsOfLen(n - 1), c \in TextBytes}

Texts == UNION {TextsOfLen(n) : n \in 0..MaxTextLen}

\* string values, values of another kind with each text as their default format
\* (an error, a fmt.Stringer, a struct), and integers, durations, times, nil
FormatValues ==
    {StringValue(s) : s \in Texts}
    \cup {AnyValue(s) : s \in Texts}
    \cup {Int64Value(n) : n \in {-7, 0, 42}}
    \cup {DurationValue(<<"1m30s">>), TimeValue(1), NilValue}

FormatLevels == (LevelDebug - LevelSpan)..(LevelError + LevelSpan)

FormatInit ==
    /\ colorHandlers = <<NewColorHandler("w", 1, HandlerOptions(FALSE, NilLeveler, "nil", RFC3339))>>
    /\ ctxHandlers = <<>>
    /\ loggers = <<>>
    /\ mutexes = <<0>>
    /\ defaultLogger = 0
    /\ defaultMu = 0
    /\ slogDefault = 0
    /\ stdLogOutput = 0
    /\ sink = <<>>
    /\ th = <<>>
    /\ obs = NoObs

\* formatValue(v)
FormatValue(v) ==
    /\ obs' = [NoObs EXCEPT !.op = "formatValue", !.attrs = <<Attr(<<"err">>, v)>>,
                            !.line = formatValue(v)]
    /\ UNCHANGED <<colorHandlers, ctxHandlers, loggers, mutexes, defaultLogger, defaultMu,
                   slogDefault, stdLogOutput, sink, th>>

\* h.levelColor(level) and h.levelString(level), as Handle calls them
FormatLevel(level) ==
    /\ obs' = [NoObs EXCEPT !.op = "level", !.h = 1,
                            !.r = NewRecord(0, level, <<>>, 0),
                            !.line = <<levelColor(level), levelString(level)>>]
    /\ UNCHANGED <<colorHandlers, ctxHandlers, loggers, mutexes, defaultLogger, defaultMu,
                   slogDefault, stdLogOutput, sink, th>>

FormatNext ==
    \/ \E v \in FormatValues : FormatValue(v)
    \/ \E level \in FormatLevels : FormatLevel(level)

SpecFormat == FormatInit /\ [][FormatNext]_vars


(***************************************************************************)
(* Claims on formatting (checked under SpecFormat).                        *)
(***************************************************************************)
\* the text contains a space, a double quote, '=', newline, carriage return or tab
HasSpecialByte(text) == \E i \in 1..Len(text) : text[i] \in {SP, DQ, "=", NL, CR, TAB}

Invalid == "<invalid>"

\* the byte an escape sequence stands for
Unescape(c) ==
    CASE c = "n" -> NL
      [] c = "r" -> CR
      [] c = "t" -> TAB
      [] c = DQ -> DQ
      [] c = BS -> BS
      [] OTHER -> Invalid

\* strconv.Unquote on the bytes between the quotes
RECURSIVE UnquoteBody(_)
UnquoteBody(s) ==
    IF s = <<>> THEN <<>>
    ELSE IF Head(s) = BS
         THEN IF Len(s) < 2 THEN <<Invalid>>
              ELSE <<Unescape(s[2])>> \o UnquoteBody(Tail(Tail(s)))
    ELSE IF Head(s) \in {DQ, NL} THEN <<Invalid>>
    ELSE <<Head(s)>> \o UnquoteBody(Tail(s))

IsQuoted(frag) == Len(frag) >= 2 /\ frag[1] = DQ /\ frag[Len(frag)] = DQ

Unquote(frag) ==
    IF IsQuoted(frag) THEN UnquoteBody(SubSeq(frag, 2, Len(frag) - 1)) ELSE <<Invalid>>

\* the rendered value of a value with the given text is as specified
RenderedAsSpecified(text, frag) ==
    IF HasSpecialByte(text) THEN IsQuoted(frag) /\ Unquote(frag) = text
    ELSE frag = text

\* C13: a value of any kind whose text contains a space, a double quote, '=',
\* newline, carriage return or tab is rendered in quotes, and unquoting the
\* rendered value gives the text back; any other value is rendered verbatim.
C13_QuotedRoundTrip ==
    obs.op = "formatValue" =>
        RenderedAsSpecified(DefaultText(obs.attrs[1].value), obs.line)

\* what does hold: the same, for the values of kind String
C13_StringsQuotedRoundTrip ==
    (obs.op = "formatValue" /\ obs.attrs[1].value.kind = "String") =>
        RenderedAsSpecified(obs.attrs[1].value.s, obs.line)

\* a string with a quote and a newline has been rendered
C13_StringsWitness ==
    /\ obs.op = "formatValue" /\ obs.attrs[1].value = StringValue(<<DQ, NL>>)
    /\ obs.line = <<DQ, BS, DQ, BS, "n", DQ>>

\* the color and the badge of a level by inclusive thresholds
BadgeByThreshold(level) ==
    IF level >= LevelError THEN <<colorRed, "ERR">>
    ELSE IF level >= LevelWarn THEN <<colorYellow, "WRN">>
    ELSE IF level >= LevelInfo THEN <<colorGreen, "INF">>
    ELSE <<colorBlue, "DBG">>

\* C14: for every integer level the color and the badge are chosen by the same
\* inclusive thresholds: >= error ERR/red, >= warn WRN/yellow, >= info INF/green,
\* else DBG/blue; a level between two named levels takes the lower one's badge, a
\* level below debug is DBG.
C14_BadgeByInclusiveThresholds ==
    obs.op = "level" =>
        /\ obs.line = BadgeByThreshold(obs.r.level)
        /\ (obs.r.level > LevelWarn /\ obs.r.level < LevelError) => obs.line[2] = "WRN"
        /\ obs.r.level < LevelDebug => obs.line[2] = "DBG"

\* a level below debug has been rendered as DBG in blue
C14_Witness ==
    obs.op = "level" /\ obs.r.level < LevelDebug /\ obs.line = <<colorBlue, "DBG">>


(***************************************************************************)
(* SpecReinit: after a completed Init(), goroutines call Init again (with  *)
(* the same sink, os.Stdout) while goroutines log, through Default() or    *)
(* through the logger the first Init returned.  Init is the steps          *)
(*   build      cfg, NewColorHandler, NewContextHandler, &Logger{...}      *)
(*   lock       defaultMu.Lock()                                           *)
(*   assign     defaultLogger = logger                                     *)
(*   unlock     defaultMu.Unlock()                                         *)
(*   slog       slog.SetDefault(logger.Logger)                             *)
(*   stdlog     log.SetOutput(&slogWriter{...}), log.SetFlags(0), return   *)
(* A logging call is the steps of Spec.                                    *)
(***************************************************************************)
ReinitOptionLists == {<<>>}

\* Init up to "defaultMu.Lock()": the objects it builds
ReinitBuild(t, opts) ==
    /\ th[t].pc = "idle"
    /\ NThreadCalls < MaxThreadCalls
    /\ LET cfg == InitConfig(opts)
           mu == Len(mutexes) + 1
           base == Len(colorHandlers) + 1
           ctxh == Len(ctxHandlers) + 1
       IN /\ mutexes' = Append(mutexes, 0)
          /\ colorHandlers' = Append(colorHandlers,
                                     NewColorHandler(cfg.output, mu, InitHandlerOptions(cfg)))
          /\ ctxHandlers' = Append(ctxHandlers, NewContextHandler(base, cfg.contextKeys))
          /\ loggers' = Append(loggers, Logger(ctxh, ctxh))
          /\ th' = [th EXCEPT ![t].pc = "init_lock", ![t].l = Len(loggers) + 1]
    /\ UNCHANGED <<defaultLogger, defaultMu, slogDefault, stdLogOutput, sink, obs>>

\* defaultMu.Lock()
ReinitLock(t) ==
    /\ th[t].pc = "init_lock"
    /\ defaultMu = 0
    /\ defaultMu' = t
    /\ th' = [th EXCEPT ![t].pc = "init_assign"]
    /\ UNCHANGED <<colorHandlers, ctxHandlers, loggers, mutexes, defaultLogger,
                   slogDefault, stdLogOutput, sink, obs>>

\* defaultLogger = logger
ReinitAssign(t) ==
    /\ th[t].pc = "init_assign"
    /\ defaultLogger' = th[t].l
    /\ th' = [th EXCEPT ![t].pc = "init_unlock"]
    /\ UNCHANGED <<colorHandlers, ctxHandlers, loggers, mutexes, defaultMu,
                   slogDefault, stdLogOutput, sink, obs>>

\* defaultMu.Unlock()
ReinitUnlock(t) ==
    /\ th[t].pc = "init_unlock"
    /\ defaultMu' = 0
    /\ th' = [th EXCEPT ![t].pc = "init_slog"]
    /\ UNCHANGED <<colorHandlers, ctxHandlers, loggers, mutexes, defaultLogger,
                   slogDefault, stdLogOutput, sink, obs>>

\* slog.SetDefault(logger.Logger)
ReinitSetDefault(t) ==
    /\ th[t].pc = "init_slog"
    /\ slogDefault' = loggers[th[t].l].Logger
    /\ th' = [th EXCEPT ![t].pc = "init_stdlog"]
    /\ UNCHANGED <<colorHandlers, ctxHandlers, loggers, mutexes, defaultLogger, defaultMu,
                   stdLogOutput, sink, obs>>

\* log.SetOutput(&slogWriter{logger: logger.Logger}); log.SetFlags(0); return logger
ReinitSetOutput(t) ==
    /\ th[t].pc = "init_stdlog"
    /\ stdLogOutput' = loggers[th[t].l].Logger
    /\ th' = [th EXCEPT ![t].pc = "idle", ![t].l = 0]
    /\ UNCHANGED <<colorHandlers, ctxHandlers, loggers, mutexes, defaultLogger, defaultMu,
                   slogDefault, sink, obs>>

InInit(t) ==
    th[t].pc \in {"init_lock", "init_assign", "init_unlock", "init_slog", "init_stdlog"}

\* a goroutine can hold logger l: Init has returned it, or Default() returns it
Published(l) == l = defaultLogger \/ ~\E t \in Threads : InInit(t) /\ th[t].l = l

ReinitNext ==
    \/ \E t \in Threads, opts \in ReinitOptionLists : ReinitBuild(t, opts)
    \/ \E t \in Threads : ReinitLock(t)
    \/ \E t \in Threads : ReinitAssign(t)
    \/ \E t \in Threads : ReinitUnlock(t)
    \/ \E t \in Threads : ReinitSetDefault(t)
    \/ \E t \in Threads : ReinitSetOutput(t)
    \/ \E t \in Threads, e \in Entries, l \in DOMAIN loggers, lv \in ThreadLevels :
           Published(l) /\ ThLogStart(t, e, l, lv)
    \/ \E t \in Threads : ThLock(t)
    \/ \E t \in Threads : ThWriteBegin(t)
    \/ \E t \in Threads : ThWriteEnd(t)
    \/ \E t \in Threads : ThUnlock(t)

SpecReinit == Init /\ [][ReinitNext]_vars


(***************************************************************************)
(* Claims on re-initialization (checked under SpecReinit).                 *)
(***************************************************************************)
\* what Init installs refers to one logger: the default logger, slog's default
\* and the standard log package's output
InstalledAgree ==
    /\ slogDefault = loggers[defaultLogger].Logger
    /\ stdLogOutput = loggers[defaultLogger].Logger

\* C15: a reader (Default() takes defaultMu.RLock, so it reads when no Init holds
\* defaultMu) never finds only part of what Init installs replaced, and once every
\* Init has returned the three refer to the same logger.
C15_InitObservedWhole ==
    /\ defaultMu = 0 => InstalledAgree
    /\ (\A t \in Threads : ~InInit(t)) => InstalledAgree

\* the second part alone: agreement once every Init has returned
C15_AgreeAfterInits ==
    (\A t \in Threads : ~InInit(t)) => InstalledAgree

\* C16: two goroutines are never inside Write on the same sink at the same time,
\* whichever loggers they write through; in particular one logging through the
\* logger of the first Init and one logging through the logger of a later Init
\* with the same sink.
C16_OneLockPerSink ==
    \A t1 \in Threads, t2 \in Threads :
        (t1 # t2 /\ InWrite(t1) /\ InWrite(t2)) =>
            colorHandlers[th[t1].h].output # colorHandlers[th[t2].h].output

\* what does hold: no two goroutines are inside Write through handlers of one Init
C16_OneLockPerInit ==
    \A t1 \in Threads, t2 \in Threads :
        (t1 # t2 /\ InWrite(t1) /\ InWrite(t2)) =>
            colorHandlers[th[t1].h].mu # colorHandlers[th[t2].h].mu

=============================================================================
